---- MODULE Spec2Model ----
(***************************************************************************)
(* Auto Archiver (src/src/main.ts): the plugin's settings, the vault it    *)
(* moves notes in, and its handlers (processFile, scanAll, the event and   *)
(* settings callbacks) as a state machine.                                 *)
(*                                                                         *)
(* Strings are sequences of tokens.  The tokens form a prefix-free         *)
(* alphabet (no token is a prefix of another), so equality, startsWith,    *)
(* endsWith, lastIndexOf of a one-token needle, slice at token boundaries  *)
(* and concatenation on token sequences agree with the same operations on  *)
(* the JavaScript strings they spell:                                      *)
(*   Task/TASK-1234.md  is  <<"Task", "/", "TASK-1234", ".", "md">>.       *)
(* An async function is cut at its awaits: each store call (exists,        *)
(* createFolder, renameFile) is one step.                                  *)
(***************************************************************************)
EXTENDS Integers, Sequences, FiniteSets, TLC

\* ------------------------------------------------------------ bounds
MaxSettingChanges == 1
MaxEdits == 1
MaxCommands == 1
MaxScans == 1
MaxFailures == 1
MaxCalls == 2
MaxOverlapInputs == 2

\* ------------------------------------------------------------ strings
Max(S) == CHOOSE x \in S : \A y \in S : y <= x

startsWith(s, t) == Len(t) <= Len(s) /\ SubSeq(s, 1, Len(t)) = t

endsWith(s, t) == Len(t) <= Len(s) /\ SubSeq(s, Len(s) - Len(t) + 1, Len(s)) = t

\* s.lastIndexOf(c): the 0-based index of the last c, -1 when there is none
lastIndexOf(s, c) ==
    LET I == {i \in 1..Len(s) : s[i] = c}
    IN  IF I = {} THEN -1 ELSE Max(I) - 1

\* s.slice(a, b) and s.slice(a) with 0-based a, b exclusive
slice(s, a, b) == IF a >= b THEN <<>> ELSE SubSeq(s, a + 1, b)

sliceFrom(s, a) == IF a >= Len(s) THEN <<>> ELSE SubSeq(s, a + 1, Len(s))

\* s.trim()
RECURSIVE trim(_)
trim(s) ==
    IF s = <<>> THEN s
    ELSE IF Head(s) = " " THEN trim(Tail(s))
    ELSE IF s[Len(s)] = " " THEN trim(SubSeq(s, 1, Len(s) - 1))
    ELSE s

\* one token's toLowerCase()
lowerTok(c) ==
    CASE c = "Archived" -> "archived"
      [] c = "TRUE"     -> "true"
      [] c = "Yes"      -> "yes"
      [] c = "Status"   -> "status"
      [] OTHER          -> c

toLowerCase(s) == [i \in 1..Len(s) |-> lowerTok(s[i])]

\* the bug of leaving the "#" on a tag
keepHash(s) == s

\* s.replace(/^#/, "")
stripHash(s) == IF s # <<>> /\ Head(s) = "#" THEN Tail(s) ELSE s

\* s.replace(/\/+$/, "")
RECURSIVE stripTrailingSlashes(_)
stripTrailingSlashes(s) ==
    IF s # <<>> /\ s[Len(s)] = "/" THEN stripTrailingSlashes(SubSeq(s, 1, Len(s) - 1))
    ELSE s

RECURSIVE stripLeadingSlashes(_)
stripLeadingSlashes(s) ==
    IF s # <<>> /\ Head(s) = "/" THEN stripLeadingSlashes(Tail(s)) ELSE s

RECURSIVE collapseSlashes(_)
collapseSlashes(s) ==
    IF Len(s) < 2 THEN s
    ELSE IF s[1] = "/" /\ s[2] = "/" THEN collapseSlashes(Tail(s))
    ELSE <<s[1]>> \o collapseSlashes(Tail(s))

\* obsidian's normalizePath: runs of separators become one "/", leading and
\* trailing separators are dropped, and the empty result is "/".  (Its
\* backslash and non-breaking-space rewrites have no token here.)
normalizePath(s) ==
    LET c == stripTrailingSlashes(stripLeadingSlashes(collapseSlashes(s)))
    IN  IF c = <<>> THEN <<"/">> ELSE c

\* s.split("/").filter(Boolean): the non-empty segments, each a token sequence
RECURSIVE splitSlash(_, _)
splitSlash(s, cur) ==
    IF s = <<>> THEN (IF cur = <<>> THEN <<>> ELSE <<cur>>)
    ELSE IF Head(s) = "/"
         THEN (IF cur = <<>> THEN <<>> ELSE <<cur>>) \o splitSlash(Tail(s), <<>>)
         ELSE splitSlash(Tail(s), Append(cur, Head(s)))

\* s.split(/[,\s]+/).filter(Boolean)
RECURSIVE splitTags(_, _)
splitTags(s, cur) ==
    IF s = <<>> THEN (IF cur = <<>> THEN <<>> ELSE <<cur>>)
    ELSE IF Head(s) \in {",", " "}
         THEN (IF cur = <<>> THEN <<>> ELSE <<cur>>) \o splitTags(Tail(s), <<>>)
         ELSE splitTags(Tail(s), Append(cur, Head(s)))

Range(q) == {q[i] : i \in 1..Len(q)}

\* ------------------------------------------------------------ settings
DEFAULT_SETTINGS ==
    [ propertyNames         |-> << <<"Archived">> >>,
      extraTruthyValues     |-> << <<"yes">>, <<"y">>, <<"archived">>, <<"done">> >>,
      tags                  |-> << <<"archived">> >>,
      archiveRoot           |-> <<"Archive">>,
      excludedRoots         |-> <<>>,
      dryRun                |-> FALSE,
      showNotice            |-> TRUE,
      unarchiveOnMissingAll |-> TRUE ]

\* ------------------------------------------------------------ metadata values
\* A frontmatter value: t is its JavaScript type.
VBool(b) == [t |-> "boolean", b |-> b, n |-> 0, s |-> <<>>, l |-> <<>>]
VNum(n)  == [t |-> "number",  b |-> FALSE, n |-> n, s |-> <<>>, l |-> <<>>]
VStr(s)  == [t |-> "string",  b |-> FALSE, n |-> 0, s |-> s, l |-> <<>>]
VList(l) == [t |-> "array",   b |-> FALSE, n |-> 0, s |-> <<>>, l |-> l]
VNull    == [t |-> "null",    b |-> FALSE, n |-> 0, s |-> <<>>, l |-> <<>>]
VObject  == [t |-> "object",  b |-> FALSE, n |-> 0, s |-> <<>>, l |-> <<>>]

\* ------------------------------------------------------------ classifier
norm(s) == toLowerCase(trim(s))

\* the bug of taking every number but 0 as truthy
isTruthyNonZero(st, v) ==
    IF v.t = "boolean" THEN v.b
    ELSE IF v.t = "number" THEN v.n # 0
    ELSE IF v.t = "string"
         THEN LET s == norm(v.s)
              IN  \/ s = <<"true">>
                  \/ s = <<"1">>
                  \/ s \in {norm(x) : x \in Range(st.extraTruthyValues)}
    ELSE FALSE

isTruthy(st, v) ==
    IF v.t = "boolean" THEN v.b
    ELSE IF v.t = "number" THEN v.n = 1
    ELSE IF v.t = "string"
         THEN LET s == norm(v.s)
              IN  \/ s = <<"true">>
                  \/ s = <<"1">>
                  \/ s \in {norm(x) : x \in Range(st.extraTruthyValues)}
    ELSE FALSE

\* cache: [hasFm, fm (a sequence of [k, v]), tags (the inline tags, with "#")]
fmTagsValue(c) ==
    LET I == {i \in 1..Len(c.fm) : c.fm[i].k = <<"tags">>}
    IN  IF c.hasFm /\ I # {} THEN c.fm[Max(I)].v ELSE VNull

tagSetOf(c) ==
    LET fmtags == fmTagsValue(c)
        fromFm ==
            IF fmtags.t = "string"
            THEN {norm(stripHash(t)) : t \in Range(splitTags(fmtags.s, <<>>))}
            ELSE IF fmtags.t = "array"
            THEN {norm(stripHash(e.s)) : e \in {x \in Range(fmtags.l) : x.t = "string"}}
            ELSE {}
        inline == {norm(stripHash(t)) : t \in Range(c.tags)}
    IN  fromFm \cup inline

shouldArchive(st, c) ==
    LET propNames == {norm(x) : x \in Range(st.propertyNames)}
        byProperty ==
            /\ c.hasFm
            /\ propNames # {}
            /\ \E i \in 1..Len(c.fm) :
                  norm(c.fm[i].k) \in propNames /\ isTruthy(st, c.fm[i].v)
        targets == {norm(stripHash(x)) : x \in Range(st.tags)}
        byTag == Len(st.tags) > 0 /\ (tagSetOf(c) \cap targets) # {}
    IN  byProperty \/ byTag

\* ------------------------------------------------------------ path utilities
archiveRootOf(st) == stripTrailingSlashes(normalizePath(st.archiveRoot))

\* the bug of testing for the root's text alone, without the separator
isInArchiveTextual(st, path) ==
    normalizePath(path) = archiveRootOf(st) \/ startsWith(normalizePath(path), archiveRootOf(st))

isInArchive(st, path) ==
    LET p == normalizePath(path)
        root == archiveRootOf(st)
    IN  p = root \/ startsWith(p, root \o <<"/">>)

\* the bug of excluding only a path that equals a prefix
isExcludedExact(st, path) ==
    IF Len(st.excludedRoots) = 0 THEN FALSE
    ELSE \E j \in 1..Len(st.excludedRoots) :
            normalizePath(path) = stripTrailingSlashes(normalizePath(st.excludedRoots[j]))

isExcluded(st, path) ==
    IF Len(st.excludedRoots) = 0 THEN FALSE
    ELSE LET p == normalizePath(path)
         IN  \E j \in 1..Len(st.excludedRoots) :
                LET root == stripTrailingSlashes(normalizePath(st.excludedRoots[j]))
                IN  p = root \/ startsWith(p, root \o <<"/">>)

\* file.extension: what follows the last dot of the file's name
extensionOf(path) ==
    LET name == sliceFrom(path, lastIndexOf(path, "/") + 1)
        dot == lastIndexOf(name, ".")
    IN  IF dot <= 0 THEN <<>> ELSE sliceFrom(name, dot + 1)

\* ------------------------------------------------------------ target resolver
\* (the steps of a function are operators of their own where a value is
\* used more than once, so that it is written once)
archiveTargetAt(archiveRoot, currentPath, i) ==
    LET curDir == IF i = -1 THEN <<>> ELSE slice(currentPath, 0, i)
        fname == IF i = -1 THEN currentPath ELSE sliceFrom(currentPath, i + 1)
    IN  IF curDir # <<>>
        THEN [ok |-> TRUE,
              dir |-> normalizePath(archiveRoot \o <<"/">> \o curDir),
              full |-> normalizePath(archiveRoot \o <<"/">> \o curDir \o <<"/">> \o fname)]
        ELSE [ok |-> TRUE,
              dir |-> normalizePath(archiveRoot),
              full |-> normalizePath(archiveRoot \o <<"/">> \o fname)]

\* the bug of leaving the note's folder out of the target
buildArchiveTargetFlat(st, filePath) ==
    archiveTargetAt(archiveRootOf(st),
                    sliceFrom(normalizePath(filePath), lastIndexOf(normalizePath(filePath), "/") + 1),
                    -1)

buildArchiveTarget(st, filePath) ==
    archiveTargetAt(archiveRootOf(st), normalizePath(filePath),
                    lastIndexOf(normalizePath(filePath), "/"))

unarchiveTargetIn(dirSafe, fname) ==
    [ok |-> TRUE,
     dir |-> dirSafe,
     full |-> IF dirSafe # <<>> THEN normalizePath(dirSafe \o <<"/">> \o fname)
              ELSE normalizePath(fname)]

unarchiveTargetAt(withoutRoot, i) ==
    IF i = -1 THEN unarchiveTargetIn(<<>>, withoutRoot)
    ELSE unarchiveTargetIn(IF slice(withoutRoot, 0, i) # <<>>
                           THEN normalizePath(slice(withoutRoot, 0, i)) ELSE <<>>,
                           sliceFrom(withoutRoot, i + 1))

\* the bug of keeping only the file's name of the path below the root
unarchiveTargetOfName(withoutRoot) ==
    unarchiveTargetAt(sliceFrom(withoutRoot, lastIndexOf(withoutRoot, "/") + 1), -1)

unarchiveTargetOf(withoutRoot) == unarchiveTargetAt(withoutRoot, lastIndexOf(withoutRoot, "/"))

\* the bug of restoring every note to the top of the vault
buildUnarchiveTargetFlat(st, filePathRaw) ==
    IF \/ ~isInArchive(st, normalizePath(filePathRaw))
       \/ normalizePath(filePathRaw) = archiveRootOf(st)
    THEN [ok |-> FALSE, dir |-> <<>>, full |-> <<>>]
    ELSE unarchiveTargetIn(<<>>, sliceFrom(normalizePath(filePathRaw),
                                           lastIndexOf(normalizePath(filePathRaw), "/") + 1))

\* ok = FALSE is the null result
buildUnarchiveTarget(st, filePathRaw) ==
    IF \/ ~isInArchive(st, normalizePath(filePathRaw))
       \/ normalizePath(filePathRaw) = archiveRootOf(st)
    THEN [ok |-> FALSE, dir |-> <<>>, full |-> <<>>]
    ELSE unarchiveTargetOf(sliceFrom(normalizePath(filePathRaw), Len(archiveRootOf(st)) + 1))

\* ------------------------------------------------------------ collision resolver
\* the bug of counting candidates from 2
collisionCandidateFromTwo(targetPath, i) ==
    LET dot == lastIndexOf(targetPath, ".")
        hasExt == dot # -1 /\ ~endsWith(targetPath, <<"/">>)
        base == IF hasExt THEN slice(targetPath, 0, dot) ELSE targetPath
        ext == IF hasExt THEN sliceFrom(targetPath, dot) ELSE <<>>
    IN  normalizePath(base \o <<" (", ToString(i + 1), ")">> \o ext)

\* the i-th candidate of resolveCollision: `${base} (${i})${ext}`
collisionCandidate(targetPath, i) ==
    LET dot == lastIndexOf(targetPath, ".")
        hasExt == dot # -1 /\ ~endsWith(targetPath, <<"/">>)
        base == IF hasExt THEN slice(targetPath, 0, dot) ELSE targetPath
        ext == IF hasExt THEN sliceFrom(targetPath, dot) ELSE <<>>
    IN  normalizePath(base \o <<" (", ToString(i), ")">> \o ext)

\* ------------------------------------------------------------ processFile, up to its first await
NoPlan == [kind |-> "none", dir |-> <<>>, full |-> <<>>]

\* the bug of not looking at dryRun
planOfNoDry(st, extension, excluded, wantArchive, inArchive, a, u) ==
    IF extension # <<"md">> THEN NoPlan
    ELSE IF excluded THEN NoPlan
    ELSE IF wantArchive /\ ~inArchive
         THEN [kind |-> "archive", dir |-> a.dir, full |-> a.full]
    ELSE IF ~wantArchive /\ inArchive /\ st.unarchiveOnMissingAll
         THEN IF ~u.ok THEN NoPlan
              ELSE [kind |-> "unarchive", dir |-> u.dir, full |-> u.full]
    ELSE NoPlan

\* the bug of not looking at unarchiveOnMissingAll
planOfUnarchiveAlways(st, extension, excluded, wantArchive, inArchive, a, u) ==
    IF extension # <<"md">> THEN NoPlan
    ELSE IF excluded THEN NoPlan
    ELSE IF wantArchive /\ ~inArchive
         THEN [kind |-> IF st.dryRun THEN "wouldArchive" ELSE "archive",
               dir |-> a.dir, full |-> a.full]
    ELSE IF ~wantArchive /\ inArchive
         THEN IF ~u.ok THEN NoPlan
              ELSE [kind |-> IF st.dryRun THEN "wouldUnarchive" ELSE "unarchive",
                    dir |-> u.dir, full |-> u.full]
    ELSE NoPlan

planOf(st, extension, excluded, wantArchive, inArchive, a, u) ==
    IF extension # <<"md">> THEN NoPlan
    ELSE IF excluded THEN NoPlan
    ELSE IF wantArchive /\ ~inArchive
         THEN [kind |-> IF st.dryRun THEN "wouldArchive" ELSE "archive",
               dir |-> a.dir, full |-> a.full]
    ELSE IF ~wantArchive /\ inArchive /\ st.unarchiveOnMissingAll
         THEN IF ~u.ok THEN NoPlan
              ELSE [kind |-> IF st.dryRun THEN "wouldUnarchive" ELSE "unarchive",
                    dir |-> u.dir, full |-> u.full]
    ELSE NoPlan

processFilePlan(st, path, c) ==
    planOf(st, extensionOf(path), isExcluded(st, path), shouldArchive(st, c),
           isInArchive(st, path), buildArchiveTarget(st, path),
           buildUnarchiveTarget(st, path))

\* ------------------------------------------------------------ the vault
Files == {"f1", "f2", "f3"}
FileOrder == <<"f1", "f2", "f3">>

NoCache   == [hasFm |-> FALSE, fm |-> <<>>, tags |-> <<>>]
FieldTrue == [hasFm |-> TRUE, fm |-> << [k |-> <<"Archived">>, v |-> VBool(TRUE)] >>, tags |-> <<>>]
TagInline == [hasFm |-> FALSE, fm |-> <<>>, tags |-> << <<"#", "archived">> >>]
MetaChoices == {NoCache, FieldTrue, TagInline}

TaskNote     == <<"Task", "/", "TASK-1234", ".", "md">>
ArchivedNote == <<"Archive", "/", "Task", "/", "TASK-1234", ".", "md">>
ArchivedOne  == <<"Archive", "/", "Task", "/", "TASK-1234", " (", "1", ")", ".", "md">>
ArchivedTwo  == <<"Archive", "/", "Task", "/", "TASK-1234", " (", "2", ")", ".", "md">>
Inbox        == <<"Inbox", ".", "md">>
ArchivedInbox == <<"Archive", "/", "Inbox", ".", "md">>
NestedInbox  == <<"Archive", "/", "Archive", "/", "Inbox", ".", "md">>
TaskText     == <<"Task", "/", "Notes", ".", "txt">>
\* Archive2/Inbox.md and ArchiveOld/Inbox.md: names that begin with the root's text
Archive2Note == <<"Archive", "2", "/", "Inbox", ".", "md">>
ArchiveOldNote == <<"Archive", "Old", "/", "Inbox", ".", "md">>

\* the vaults a run starts from: every file's path and metadata cache
Vaults ==
    { [path  |-> [f \in Files |-> CASE f = "f1" -> TaskNote
                                    [] f = "f2" -> ArchivedNote
                                    [] OTHER    -> ArchivedOne],
       cache |-> [f \in Files |-> CASE f = "f1" -> FieldTrue
                                    [] f = "f2" -> TagInline
                                    [] OTHER    -> FieldTrue]],
      [path  |-> [f \in Files |-> CASE f = "f1" -> ArchivedNote
                                    [] f = "f2" -> Inbox
                                    [] OTHER    -> NestedInbox],
       cache |-> [f \in Files |-> CASE f = "f1" -> NoCache
                                    [] f = "f2" -> TagInline
                                    [] OTHER    -> NoCache]],
      [path  |-> [f \in Files |-> CASE f = "f1" -> TaskNote
                                    [] f = "f2" -> ArchivedInbox
                                    [] OTHER    -> TaskText],
       cache |-> [f \in Files |-> CASE f = "f1" -> FieldTrue
                                    [] f = "f2" -> NoCache
                                    [] OTHER    -> FieldTrue]],
      [path  |-> [f \in Files |-> CASE f = "f1" -> Archive2Note
                                    [] f = "f2" -> ArchivedInbox
                                    [] OTHER    -> ArchiveOldNote],
       cache |-> [f \in Files |-> CASE f = "f1" -> TagInline
                                    [] f = "f2" -> FieldTrue
                                    [] OTHER    -> NoCache]] }

\* the folders a path lies in: every proper prefix that ends before a "/"
parentFolders(p) == {slice(p, 0, i - 1) : i \in {j \in 1..Len(p) : p[j] = "/"}}

\* ------------------------------------------------------------ state
VARIABLES
    settings,   \* this.settings
    path,       \* TFile.path of every file
    cache,      \* metadataCache.getFileCache(file)
    folders,    \* the folders of the vault
    timers,     \* pending window.setTimeout callbacks, per file
    calls,      \* the processFile calls in flight
    scan,       \* the scanAll call
    lastRun,    \* history: the processFile call that ended last
    stable,     \* history: nothing changed since lastRun ended
    used        \* how often each bounded input was used

vars == <<settings, path, cache, folders, timers, calls, scan, lastRun, stable, used>>

\* slot 0 holds scanAll's processFile call, the others the handlers' calls;
\* made: the folders a call created; met: those its createFolder found existing
Slots == 0..MaxCalls

IdleCall ==
    [pc |-> "idle", file |-> "f1", owner |-> "none", kind |-> "none", from |-> <<>>,
     want |-> FALSE, follows |-> FALSE, occupied |-> {}, cfg |-> DEFAULT_SETTINGS,
     dir |-> <<>>, full |-> <<>>, parts |-> <<>>, k |-> 0, i |-> 0,
     dest |-> <<>>, made |-> {}, met |-> {}]

NoRun ==
    [outcome |-> "none", file |-> "f1", owner |-> "none", from |-> <<>>, to |-> <<>>,
     prior |-> <<>>, target |-> <<>>, dest |-> <<>>, reason |-> "", want |-> FALSE,
     follows |-> FALSE, occupied |-> {}, cfg |-> DEFAULT_SETTINGS, made |-> {},
     prev |-> [outcome |-> "none", file |-> "f1", from |-> <<>>, to |-> <<>>,
               target |-> <<>>, root |-> <<>>]]

IdleScan ==
    [status |-> "idle", files |-> <<>>, i |-> 0, archived |-> 0, unarchived |-> 0,
     was |-> FALSE, from |-> <<>>, root |-> <<>>, log |-> <<>>]

\* vault.adapter.exists(p); the vault's own root is there
exists(p) == p = <<"/">> \/ p \in folders \/ \E f \in Files : path[f] = p

Init ==
    /\ settings = DEFAULT_SETTINGS
    /\ \E v \in Vaults :
          /\ path = v.path
          /\ cache = v.cache
          /\ folders = UNION {parentFolders(v.path[f]) : f \in Files}
    /\ timers = [f \in Files |-> 0]
    /\ calls = [s \in Slots |-> IdleCall]
    /\ scan = IdleScan
    /\ lastRun = NoRun
    /\ stable = FALSE
    /\ used = [sets |-> 0, edits |-> 0, cmds |-> 0, scans |-> 0, fails |-> 0]

\* ------------------------------------------------------------ settings tab
\* v.split(",")
RECURSIVE splitComma(_, _)
splitComma(s, cur) ==
    IF s = <<>> THEN <<cur>>
    ELSE IF Head(s) = "," THEN <<cur>> \o splitComma(Tail(s), <<>>)
    ELSE splitComma(Tail(s), Append(cur, Head(s)))

RootInputs == { <<"/">>, <<" ", "Old", "/">> }
ExcludedInputs == { <<"Task", ",", " ", "Templates">>, <<"Archive", "/">> }

Quiet == (\A s \in Slots : calls[s].pc = "idle") /\ scan.status \notin {"running", "awaiting"}

\* when the host may deliver an input: between calls (ov = FALSE), or at any
\* await of the calls in flight (ov = TRUE)
MayDeliver(ov) ==
    IF ov
    THEN /\ scan.status # "running"
         /\ used.sets + used.edits + used.cmds + used.scans < MaxOverlapInputs
    ELSE Quiet

Changed(st) ==
    /\ used.sets < MaxSettingChanges
    /\ st # settings
    /\ settings' = st
    /\ used' = [used EXCEPT !.sets = @ + 1]
    /\ stable' = FALSE
    /\ UNCHANGED <<path, cache, folders, timers, calls, scan, lastRun>>

SetArchiveRoot(ov, v) ==
    /\ MayDeliver(ov)
    /\ Changed([settings EXCEPT !.archiveRoot =
                   normalizePath(IF trim(v) # <<>> THEN trim(v) ELSE <<"Archive">>)])

SetExcludedRoots(ov, v) ==
    /\ MayDeliver(ov)
    /\ LET items == splitComma(v, <<>>)
           \* normalizePath never returns "", so filter(Boolean) keeps every item
           mapped == [i \in 1..Len(items) |-> normalizePath(trim(items[i]))]
       IN  Changed([settings EXCEPT !.excludedRoots = mapped])

SetDryRun(ov, v) ==
    /\ MayDeliver(ov)
    /\ Changed([settings EXCEPT !.dryRun = v])

SetUnarchiveOnMissingAll(ov, v) ==
    /\ MayDeliver(ov)
    /\ Changed([settings EXCEPT !.unarchiveOnMissingAll = v])

\* ------------------------------------------------------------ processFile
FreeSlots == {s \in Slots \ {0} : calls[s].pc = "idle"}
Min(S) == CHOOSE x \in S : \A y \in S : x <= y

Occupied == folders \cup {path[f] : f \in Files}

\* from: the file's path when the call began; prior: its path when the call ended,
\* before the move; to: its path after the call; reason: why an Error;
\* prev: the call that had ended last before this one
RunOf(c, outcome, reason, to) ==
    [outcome |-> outcome, file |-> c.file, owner |-> c.owner, from |-> c.from,
     to |-> to, prior |-> path[c.file], target |-> c.full, dest |-> c.dest,
     reason |-> reason, want |-> c.want, follows |-> c.follows,
     occupied |-> c.occupied, cfg |-> c.cfg, made |-> c.made,
     prev |-> [outcome |-> lastRun.outcome, file |-> lastRun.file,
               from |-> lastRun.from, to |-> lastRun.to,
               target |-> lastRun.target, root |-> lastRun.cfg.archiveRoot]]

\* the bug of counting every note found in the archive as archived
scanTallyLoose(sc, st, f, now) ==
    LET nowInArchive == isInArchive(st, now)
    IN  [sc EXCEPT !.status = "running",
                   !.i = @ + 1,
                   !.archived = IF nowInArchive THEN @ + 1 ELSE @,
                   !.unarchived = IF sc.was /\ ~nowInArchive THEN @ + 1 ELSE @,
                   !.log = Append(@, [file |-> f, from |-> sc.from, to |-> now,
                                      root0 |-> sc.root, root1 |-> st.archiveRoot])]

\* scanAll's lines after `await this.processFile(f)`
scanTally(sc, st, f, now) ==
    LET nowInArchive == isInArchive(st, now)
    IN  [sc EXCEPT !.status = "running",
                   !.i = @ + 1,
                   !.archived = IF ~sc.was /\ nowInArchive THEN @ + 1 ELSE @,
                   !.unarchived = IF sc.was /\ ~nowInArchive THEN @ + 1 ELSE @,
                   !.log = Append(@, [file |-> f, from |-> sc.from, to |-> now,
                                      root0 |-> sc.root, root1 |-> st.archiveRoot])]

NewCall(f, owner, plan, want) ==
    [IdleCall EXCEPT !.file = f, !.owner = owner, !.kind = plan.kind,
                     !.from = path[f], !.want = want,
                     !.follows = /\ stable
                                 /\ lastRun.outcome \notin {"none", "Error"}
                                 /\ lastRun.file = f,
                     !.occupied = Occupied, !.cfg = settings,
                     !.dir = plan.dir, !.full = plan.full]

BeginCall(slot, c) ==
    IF c.kind \in {"archive", "unarchive"}
    THEN /\ calls' = [calls EXCEPT ![slot] =
                [c EXCEPT !.pc = IF c.kind = "unarchive" /\ c.dir = <<>>
                                 THEN "resolve" ELSE "ensure"]]
         /\ UNCHANGED <<lastRun, stable>>
    ELSE /\ lastRun' = RunOf(c, CASE c.kind = "wouldArchive" -> "WouldArchive"
                                  [] c.kind = "wouldUnarchive" -> "WouldUnarchive"
                                  [] OTHER -> "NoAction", "", c.from)
         /\ stable' = TRUE
         /\ UNCHANGED calls

\* processFile(f) from its first line to its first await, or to its return
Begin(f, owner, slot) ==
    BeginCall(slot, NewCall(f, owner, processFilePlan(settings, path[f], cache[f]),
                            shouldArchive(settings, cache[f])))

Returns(f) == processFilePlan(settings, path[f], cache[f]).kind \notin {"archive", "unarchive"}

\* the call in slot s ends: fulfilled (outcome, the file now at `to`) or rejected
End(s, outcome, reason, to) ==
    LET c == calls[s]
    IN  /\ calls' = [calls EXCEPT ![s] = IdleCall]
        /\ lastRun' = RunOf(c, outcome, reason, to)
        /\ stable' = TRUE
        /\ scan' = IF c.owner # "scan" THEN scan
                   ELSE IF outcome = "Error" THEN [scan EXCEPT !.status = "rejected"]
                   ELSE scanTally(scan, settings, c.file, to)

\* a call resumes at its await once the running turn (scanAll's loop up to its
\* next await) has ended
Resumes(c, pc) == c.pc = pc /\ scan.status # "running"

Step(s, c) ==
    /\ calls' = [calls EXCEPT ![s] = c]
    /\ UNCHANGED <<settings, path, cache, folders, timers, scan, lastRun, stable, used>>

\* the bug of never making the folder
EnsureSkips(s) ==
    /\ Resumes(calls[s], "ensure")
    /\ Step(s, [calls[s] EXCEPT !.pc = "resolve"])

\* ensureFolderExists: `if (await vault.adapter.exists(folderPath)) return`
EnsureExists(s) ==
    LET c == calls[s]
        folderPath == normalizePath(c.dir)
        parts == splitSlash(folderPath, <<>>)
    IN  /\ Resumes(c, "ensure")
        /\ IF exists(folderPath) \/ parts = <<>>
           THEN Step(s, [c EXCEPT !.pc = "resolve"])
           ELSE Step(s, [c EXCEPT !.pc = "probe", !.parts = parts, !.k = 1])

\* acc after k parts: acc = acc ? `${acc}/${part}` : part
RECURSIVE accOf(_, _)
accOf(parts, k) ==
    IF k = 1 THEN parts[1] ELSE accOf(parts, k - 1) \o <<"/">> \o parts[k]

AfterPart(c) ==
    IF c.k < Len(c.parts) THEN [c EXCEPT !.pc = "probe", !.k = @ + 1]
    ELSE [c EXCEPT !.pc = "resolve"]

\* `const exists = await vault.adapter.exists(accNorm)`
EnsureProbe(s) ==
    LET c == calls[s]
        accNorm == normalizePath(accOf(c.parts, c.k))
    IN  /\ Resumes(c, "probe")
        /\ IF exists(accNorm) THEN Step(s, AfterPart(c))
           ELSE Step(s, [c EXCEPT !.pc = "create"])

\* `await vault.createFolder(accNorm).catch(...)`: the store creates the folder,
\* or says "Folder already exists" (swallowed)
EnsureCreate(s) ==
    LET c == calls[s]
        accNorm == normalizePath(accOf(c.parts, c.k))
    IN  /\ Resumes(c, "create")
        /\ IF exists(accNorm) THEN Step(s, [AfterPart(c) EXCEPT !.met = @ \cup {accNorm}])
           ELSE /\ folders' = folders \cup {accNorm}
                /\ calls' = [calls EXCEPT ![s] = [AfterPart(c) EXCEPT !.made = @ \cup {accNorm}]]
                /\ UNCHANGED <<settings, path, cache, timers, scan, lastRun, stable, used>>

\* the bug of a catch that swallows every error of createFolder
EnsureCreateSwallows(s) ==
    LET c == calls[s]
    IN  /\ Resumes(c, "create")
        /\ ~exists(normalizePath(accOf(c.parts, c.k)))
        /\ used.fails < MaxFailures
        /\ used' = [used EXCEPT !.fails = @ + 1]
        /\ calls' = [calls EXCEPT ![s] = AfterPart(c)]
        /\ UNCHANGED <<settings, path, cache, folders, timers, scan, lastRun, stable>>

\* createFolder fails with another error: processFile rejects
EnsureCreateFails(s) ==
    LET c == calls[s]
    IN  /\ Resumes(c, "create")
        /\ ~exists(normalizePath(accOf(c.parts, c.k)))
        /\ used.fails < MaxFailures
        /\ used' = [used EXCEPT !.fails = @ + 1]
        /\ End(s, "Error", "createFolder failed", path[c.file])
        /\ UNCHANGED <<settings, path, cache, folders, timers>>

\* resolveCollision: `if (!(await vault.adapter.exists(targetPath))) return targetPath`
ResolveFirst(s) ==
    LET c == calls[s]
        targetPath == normalizePath(c.full)
    IN  /\ Resumes(c, "resolve")
        /\ IF ~exists(targetPath) THEN Step(s, [c EXCEPT !.pc = "rename", !.dest = targetPath])
           ELSE Step(s, [c EXCEPT !.pc = "suffix", !.i = 1])

\* `while (await vault.adapter.exists(candidate)) i++`
ResolveProbe(s) ==
    LET c == calls[s]
        candidate == collisionCandidate(normalizePath(c.full), c.i)
    IN  /\ Resumes(c, "suffix")
        /\ IF exists(candidate) THEN Step(s, [c EXCEPT !.i = @ + 1])
           ELSE Step(s, [c EXCEPT !.pc = "rename", !.dest = candidate])

\* the folder of a path, and its name in that folder
folderOf(p) == slice(p, 0, lastIndexOf(p, "/"))

nameOf(p) == sliceFrom(p, lastIndexOf(p, "/") + 1)

\* the bug of taking the other files of the note's folder along
RenameWithCompanions(s) ==
    LET c == calls[s]
    IN  /\ Resumes(c, "rename")
        /\ ~exists(c.dest)
        /\ path' = [g \in Files |->
                       IF g = c.file THEN c.dest
                       ELSE IF folderOf(path[g]) = folderOf(path[c.file])
                            THEN normalizePath(folderOf(c.dest) \o <<"/">> \o nameOf(path[g]))
                       ELSE path[g]]
        /\ End(s, IF c.kind = "archive" THEN "Archived" ELSE "Unarchived", "", c.dest)
        /\ UNCHANGED <<settings, cache, folders, timers, used>>

\* `await this.app.fileManager.renameFile(file, dest)`, then the notice
Rename(s) ==
    LET c == calls[s]
    IN  /\ Resumes(c, "rename")
        /\ IF exists(c.dest)
           THEN /\ End(s, "Error", "destination exists", path[c.file])
                /\ UNCHANGED path
           ELSE /\ path' = [path EXCEPT ![c.file] = c.dest]
                /\ End(s, IF c.kind = "archive" THEN "Archived" ELSE "Unarchived", "", c.dest)
        /\ UNCHANGED <<settings, cache, folders, timers, used>>

\* the store's move fails: processFile rejects
RenameFails(s) ==
    LET c == calls[s]
    IN  /\ Resumes(c, "rename")
        /\ ~exists(c.dest)
        /\ used.fails < MaxFailures
        /\ used' = [used EXCEPT !.fails = @ + 1]
        /\ End(s, "Error", "renameFile failed", path[c.file])
        /\ UNCHANGED <<settings, path, cache, folders, timers>>

\* ------------------------------------------------------------ handlers
\* the store reports an edit: metadataCache "changed" and vault "modify" each
\* schedule processFile(file) 50 ms later
Edit(ov, f, m) ==
    /\ MayDeliver(ov)
    /\ used.edits < MaxEdits
    /\ m # cache[f]
    /\ cache' = [cache EXCEPT ![f] = m]
    /\ timers' = [timers EXCEPT ![f] = @ + 2]
    /\ used' = [used EXCEPT !.edits = @ + 1]
    /\ stable' = FALSE
    /\ UNCHANGED <<settings, path, folders, calls, scan, lastRun>>

\* a timer's callback: `this.processFile(file).catch(this.reportError)`
TimerFires(ov, f) ==
    /\ MayDeliver(ov)
    /\ timers[f] > 0
    /\ Returns(f) \/ FreeSlots # {}
    /\ timers' = [timers EXCEPT ![f] = @ - 1]
    /\ Begin(f, "event", IF FreeSlots = {} THEN 1 ELSE Min(FreeSlots))
    /\ UNCHANGED <<settings, path, cache, folders, scan, used>>

\* command "process-current-file" with f the active file
ProcessCurrent(ov, f) ==
    /\ MayDeliver(ov)
    /\ used.cmds < MaxCommands
    /\ Returns(f) \/ FreeSlots # {}
    /\ used' = [used EXCEPT !.cmds = @ + 1]
    /\ Begin(f, "command", IF FreeSlots = {} THEN 1 ELSE Min(FreeSlots))
    /\ UNCHANGED <<settings, path, cache, folders, timers, scan>>

\* ------------------------------------------------------------ scanAll
IsMarkdown(f) == extensionOf(path[f]) = <<"md">>

\* command "scan-and-archive": `const files = this.app.vault.getMarkdownFiles()`
ScanStart(ov) ==
    /\ MayDeliver(ov)
    /\ scan.status \in {"idle", "done", "rejected"}
    /\ used.scans < MaxScans
    /\ used' = [used EXCEPT !.scans = @ + 1]
    /\ scan' = [IdleScan EXCEPT !.status = "running",
                                !.files = SelectSeq(FileOrder, IsMarkdown), !.i = 1]
    /\ UNCHANGED <<settings, path, cache, folders, timers, calls, lastRun, stable>>

\* one turn of the loop, to the await inside processFile or through its return
ScanStep ==
    /\ scan.status = "running"
    /\ scan.i <= Len(scan.files)
    /\ LET f == scan.files[scan.i]
           sc == [scan EXCEPT !.was = isInArchive(settings, path[f]),
                              !.from = path[f], !.root = settings.archiveRoot]
       IN  /\ Begin(f, "scan", 0)
           /\ scan' = IF Returns(f) THEN scanTally(sc, settings, f, path[f])
                      ELSE [sc EXCEPT !.status = "awaiting"]
    /\ UNCHANGED <<settings, path, cache, folders, timers, used>>

\* after the loop: the notice with both counters
ScanFinish ==
    /\ scan.status = "running"
    /\ scan.i > Len(scan.files)
    /\ scan' = [scan EXCEPT !.status = "done"]
    /\ UNCHANGED <<settings, path, cache, folders, timers, calls, lastRun, stable, used>>

\* ------------------------------------------------------------ the classifier's inputs
\* The plugin started with dry-run on, one note's metadata drawn from the
\* values a frontmatter field and the tags can hold, and the settings tab's
\* fields of the classifier.
NonEmpty(x) == x # <<>>

\* v.split(",").map((s) => s.trim()).filter(Boolean)
splitList(v) ==
    LET items == splitComma(v, <<>>)
    IN  SelectSeq([i \in 1..Len(items) |-> trim(items[i])], NonEmpty)

\* v.split(",").map((s) => s.replace(/^#/, "").trim()).filter(Boolean)
splitTagList(v) ==
    LET items == splitComma(v, <<>>)
    IN  SelectSeq([i \in 1..Len(items) |-> trim(stripHash(items[i]))], NonEmpty)

PropertyInputs == { <<"Status">> }
ExtraTruthyInputs == { <<"done">>, <<" ", "Yes", ",", " ", "ok", ",">> }
TagInputs == { <<"done">>, <<"#", "Archived", ",", " ", "x">> }

SetPropertyNames(ov, v) ==
    /\ MayDeliver(ov)
    /\ Changed([settings EXCEPT !.propertyNames = splitList(v)])

SetExtraTruthyValues(ov, v) ==
    /\ MayDeliver(ov)
    /\ Changed([settings EXCEPT !.extraTruthyValues = splitList(v)])

SetTags(ov, v) ==
    /\ MayDeliver(ov)
    /\ Changed([settings EXCEPT !.tags = splitTagList(v)])

FieldValues ==
    { VBool(TRUE), VBool(FALSE), VNum(0), VNum(1), VNum(2), VNum(-1),
      VStr(<<"true">>), VStr(<<"TRUE">>), VStr(<<" ", "true", " ">>),
      VStr(<<"1">>), VStr(<<"2">>), VStr(<<"yes">>), VStr(<<" ", "Yes">>),
      VStr(<<"no">>), VStr(<<"done">>), VStr(<<"ok">>), VStr(<<>>),
      VNull, VObject, VList(<<>>), VList(<<VBool(TRUE)>>) }

FieldKeys == { <<"Archived">>, <<" ", "status">>, <<"Other">> }

\* how a note can carry the tag: "#Archived", "archived", " Archived ", or another
TagSpellings ==
    { <<"#", "Archived">>, <<"archived">>, <<" ", "Archived", " ">>, <<"#", "x">>, <<"other">> }

FieldCache(k, v) == [hasFm |-> TRUE, fm |-> << [k |-> k, v |-> v] >>, tags |-> <<>>]
ListTagCache(t) == FieldCache(<<"tags">>, VList(<<VStr(<<"other">>), VNum(1), VStr(t)>>))
StringTagCache(t) == FieldCache(<<"tags">>, VStr(<<"other", ",", " ">> \o t))
InlineTagCache(t) == [hasFm |-> FALSE, fm |-> <<>>, tags |-> << <<"#", "other">>, t >>]

ClassifierCaches ==
    {NoCache}
    \cup {FieldCache(k, v) : k \in FieldKeys, v \in FieldValues}
    \cup {ListTagCache(t) : t \in TagSpellings}
    \cup {StringTagCache(t) : t \in TagSpellings}
    \cup {InlineTagCache(t) : t \in TagSpellings}

InitClassify ==
    /\ settings = [DEFAULT_SETTINGS EXCEPT !.dryRun = TRUE]
    /\ path = [f \in Files |-> CASE f = "f1" -> TaskNote
                                  [] f = "f2" -> ArchivedInbox
                                  [] OTHER    -> TaskText]
    /\ \E m \in ClassifierCaches :
          cache = [f \in Files |-> IF f = "f1" THEN m ELSE NoCache]
    /\ folders = {<<"Task">>, <<"Archive">>}
    /\ timers = [f \in Files |-> 0]
    /\ calls = [s \in Slots |-> IdleCall]
    /\ scan = IdleScan
    /\ lastRun = NoRun
    /\ stable = FALSE
    /\ used = [sets |-> 0, edits |-> 0, cmds |-> 0, scans |-> 0, fails |-> 0]

\* ------------------------------------------------------------ specifications
Host(ov) ==
    \/ \E v \in RootInputs : SetArchiveRoot(ov, v)
    \/ \E v \in ExcludedInputs : SetExcludedRoots(ov, v)
    \/ \E v \in BOOLEAN : SetDryRun(ov, v)
    \/ \E v \in BOOLEAN : SetUnarchiveOnMissingAll(ov, v)
    \/ \E f \in Files, m \in MetaChoices : Edit(ov, f, m)
    \/ \E f \in Files : TimerFires(ov, f)
    \/ \E f \in Files : ProcessCurrent(ov, f)
    \/ ScanStart(ov)

Store ==
    \E s \in Slots :
        \/ EnsureExists(s)
        \/ EnsureProbe(s)
        \/ EnsureCreate(s)
        \/ EnsureCreateFails(s)
        \/ ResolveFirst(s)
        \/ ResolveProbe(s)
        \/ Rename(s)
        \/ RenameFails(s)

\* calls do not overlap and the host acts between them
Next == Host(FALSE) \/ Store \/ ScanStep \/ ScanFinish

Spec == Init /\ [][Next]_vars

\* the host's events arrive at any await of the calls in flight
NextOverlap == Host(TRUE) \/ Store \/ ScanStep \/ ScanFinish

SpecOverlap == Init /\ [][NextOverlap]_vars

\* the classifier on every input: the settings tab's fields, then the command
NextClassify ==
    \/ \E v \in PropertyInputs : SetPropertyNames(FALSE, v)
    \/ \E v \in ExtraTruthyInputs : SetExtraTruthyValues(FALSE, v)
    \/ \E v \in TagInputs : SetTags(FALSE, v)
    \/ \E f \in Files : ProcessCurrent(FALSE, f)

SpecClassify == InitClassify /\ [][NextClassify]_vars

\* ------------------------------------------------------------ the claims' vocabulary
\* The specification's words, stated on path segments rather than on the
\* strings the code slices.
Segments(p) == splitSlash(p, <<>>)

RECURSIVE Join(_)
Join(segs) ==
    IF segs = <<>> THEN <<>>
    ELSE IF Len(segs) = 1 THEN segs[1]
    ELSE segs[1] \o <<"/">> \o Join(Tail(segs))

\* p is the root or lies below it
UnderRoot(p, root) ==
    /\ Len(Segments(root)) <= Len(Segments(p))
    /\ SubSeq(Segments(p), 1, Len(Segments(root))) = Segments(root)

\* the specification's isUnderRoot: p is the root or starts with the root and a
\* separator; no path of the vault starts with a separator, so none is under
\* a root without segments
InArchiveArea(p, root) == Segments(root) # <<>> /\ UnderRoot(p, root)

StrictlyUnderRoot(p, root) == UnderRoot(p, root) /\ Len(Segments(root)) < Len(Segments(p))

\* <root>/D/F for the note at D/F, and back
Mirror(root, p) == Join(Segments(root) \o Segments(p))

Unmirror(root, p) == Join(SubSeq(Segments(p), Len(Segments(root)) + 1, Len(Segments(p))))

Recognized(p) == Len(p) >= 2 /\ SubSeq(p, Len(p) - 1, Len(p)) = <<".", "md">>

ExcludedBy(p, st) == \E j \in 1..Len(st.excludedRoots) : UnderRoot(p, st.excludedRoots[j])

\* base + " (k)" + ext, the suffix before the extension of the file's name
Suffixed(p, k) ==
    LET name == Segments(p)[Len(Segments(p))]
        dot == lastIndexOf(name, ".")
        stem == IF dot = -1 THEN name ELSE slice(name, 0, dot)
        ext == IF dot = -1 THEN <<>> ELSE sliceFrom(name, dot)
    IN  Join(SubSeq(Segments(p), 1, Len(Segments(p)) - 1)
             \o << stem \o <<" (", ToString(k), ")">> \o ext >>)

Ran == lastRun.outcome # "none"

StoreFailed == lastRun.reason \in {"createFolder failed", "renameFile failed"}

\* ------------------------------------------------------------ the claims
\* C1: when processFile runs to completion twice in succession on the same
\* file, with no change to its metadata, to the settings or to the vault in
\* between, the second run moves nothing and creates no folder.
C1_Idempotent == lastRun.follows => (lastRun.to = lastRun.from /\ lastRun.made = {})

\* C2: a run on a .md file that is not excluded, not under the archive root
\* and classified should-archive, with dry-run off, the mirrored destination
\* free and no store failure, ends with the file at exactly <root>/D/F.
C2_ArchiveMirrors ==
    ( /\ Ran
      /\ ~StoreFailed
      /\ Recognized(lastRun.from)
      /\ ~ExcludedBy(lastRun.from, lastRun.cfg)
      /\ ~UnderRoot(lastRun.from, lastRun.cfg.archiveRoot)
      /\ lastRun.want
      /\ ~lastRun.cfg.dryRun
      /\ Mirror(lastRun.cfg.archiveRoot, lastRun.from) \notin lastRun.occupied )
    => /\ lastRun.outcome = "Archived"
       /\ lastRun.to = Mirror(lastRun.cfg.archiveRoot, lastRun.from)
       /\ path[lastRun.file] = lastRun.to

C2_Witness ==
    /\ lastRun.outcome = "Archived"
    /\ lastRun.cfg.archiveRoot = <<"Archive">>
    /\ lastRun.from = TaskNote
    /\ path[lastRun.file] = ArchivedNote

\* C3: a run on a .md file at <root>/D/F that is not excluded and matches no
\* field or tag, with unarchiveOnMissingAll on, dry-run off, the destination
\* free and no store failure, ends with the file at exactly D/F; it creates
\* no folder when D is empty, and otherwise only folders D lies in or is.
C3_UnarchiveMirrors ==
    ( /\ Ran
      /\ ~StoreFailed
      /\ Recognized(lastRun.from)
      /\ ~ExcludedBy(lastRun.from, lastRun.cfg)
      /\ StrictlyUnderRoot(lastRun.from, lastRun.cfg.archiveRoot)
      /\ ~lastRun.want
      /\ lastRun.cfg.unarchiveOnMissingAll
      /\ ~lastRun.cfg.dryRun
      /\ Unmirror(lastRun.cfg.archiveRoot, lastRun.from) \notin lastRun.occupied )
    => /\ lastRun.outcome = "Unarchived"
       /\ lastRun.to = Unmirror(lastRun.cfg.archiveRoot, lastRun.from)
       /\ path[lastRun.file] = lastRun.to
       /\ Len(Segments(lastRun.to)) = 1 => lastRun.made = {}
       /\ lastRun.made \subseteq parentFolders(lastRun.to)

C3_Witness ==
    /\ lastRun.outcome = "Unarchived"
    /\ lastRun.cfg.archiveRoot = <<"Archive">>
    /\ lastRun.from = ArchivedNote
    /\ path[lastRun.file] = TaskNote
    /\ lastRun.made = {<<"Task">>}

\* C4: for every path P of the vault and the configured archive root,
\* buildUnarchiveTarget(buildArchiveTarget(P).full) is not null and its full
\* path is P.
C4_PathSymmetry ==
    \A f \in Files :
        /\ buildUnarchiveTarget(settings, buildArchiveTarget(settings, path[f]).full).ok
        /\ buildUnarchiveTarget(settings, buildArchiveTarget(settings, path[f]).full).full = path[f]

\* C5: a file whose path equals or lies under an excluded prefix, or whose
\* extension is not md, is never moved and causes no folder creation: no call
\* that could move it or create a folder for it is ever in flight, and every
\* run on it ends NoAction with the file where it was and no folder made.
C5_ExclusionPrecedence ==
    /\ \A s \in Slots :
          calls[s].pc # "idle" =>
             /\ Recognized(calls[s].from)
             /\ ~ExcludedBy(calls[s].from, calls[s].cfg)
    /\ (Ran /\ (~Recognized(lastRun.from) \/ ExcludedBy(lastRun.from, lastRun.cfg)))
          => /\ lastRun.outcome = "NoAction"
             /\ lastRun.to = lastRun.from
             /\ path[lastRun.file] = lastRun.from
             /\ lastRun.made = {}

C5_Witness ==
    /\ lastRun.outcome = "NoAction"
    /\ ExcludedBy(lastRun.from, lastRun.cfg)
    /\ Recognized(lastRun.from)
    /\ lastRun.want
    /\ ~UnderRoot(lastRun.from, lastRun.cfg.archiveRoot)

\* what a run under dry-run may report: nothing moved, nothing made, and a
\* file that would be archived or unarchived reported with its mirrored path
DryReport ==
    (Ran /\ lastRun.cfg.dryRun) =>
       /\ lastRun.outcome \in {"NoAction", "WouldArchive", "WouldUnarchive"}
       /\ lastRun.to = lastRun.from
       /\ lastRun.made = {}
       /\ lastRun.outcome = "WouldArchive" =>
             lastRun.target = Mirror(lastRun.cfg.archiveRoot, lastRun.from)
       /\ lastRun.outcome = "WouldUnarchive" =>
             lastRun.target = Unmirror(lastRun.cfg.archiveRoot, lastRun.from)

\* C6: while dryRun is true no step changes the vault (no path changes, no
\* folder is created), and a run only reports WouldArchive / WouldUnarchive
\* with the mirrored path.
C6_DryRun ==
    [][settings.dryRun => (path' = path /\ folders' = folders /\ DryReport')]_vars

C6_Witness ==
    /\ settings.dryRun
    /\ lastRun.outcome = "WouldArchive"
    /\ lastRun.from = TaskNote
    /\ lastRun.target = ArchivedNote
    /\ path[lastRun.file] = TaskNote

\* C7: when resolveCollision has returned, its result is the desired path if
\* that does not exist; otherwise it is base + " (k)" + ext for the smallest
\* k >= 1 whose name does not exist, the suffix before the extension.
C7_CollisionOrder ==
    \A s \in Slots :
        calls[s].pc = "rename" =>
           /\ ~exists(calls[s].full) => calls[s].dest = calls[s].full
           /\ exists(calls[s].full) =>
                 \E k \in 1..(Cardinality(Files) + 1) :
                    /\ calls[s].dest = Suffixed(calls[s].full, k)
                    /\ ~exists(calls[s].dest)
                    /\ \A j \in 1..(k - 1) : exists(Suffixed(calls[s].full, j))

C7_Witness ==
    \E s \in Slots :
        /\ calls[s].pc = "rename"
        /\ calls[s].full = ArchivedNote
        /\ exists(ArchivedNote)
        /\ exists(ArchivedOne)
        /\ calls[s].dest = ArchivedTwo

\* C8: overlapping processFile calls for one file with an unchanged verdict
\* act like a single call: no call moves the file, which an overlapping call
\* has already brought to the mirrored destination, on to a suffixed name.
C8_Reentrant ==
    ~ ( /\ lastRun.outcome \in {"Archived", "Unarchived"}
        /\ lastRun.want = shouldArchive(settings, cache[lastRun.file])
        /\ lastRun.prior # lastRun.from
        /\ lastRun.prior = lastRun.target
        /\ lastRun.to # lastRun.target )

\* C9: a failure while scanAll processes one file does not end the scan:
\* when the scan has ended, every file of the scan has been processed.
C9_ScanIsolation ==
    scan.status \in {"done", "rejected"} => scan.i >= Len(scan.files)

LogIndices == 1..Len(scan.log)

\* C10: when scanAll completes, archived is the number of scanned files whose
\* path went from not-under-root to under-root during their own step,
\* unarchived the number that went the other way, and a file that was not
\* moved counts in neither.
C10_ScanTally ==
    scan.status = "done" =>
       /\ Len(scan.log) = Len(scan.files)
       /\ scan.archived = Cardinality({j \in LogIndices :
             /\ ~UnderRoot(scan.log[j].from, scan.log[j].root0)
             /\ UnderRoot(scan.log[j].to, scan.log[j].root1)})
       /\ scan.unarchived = Cardinality({j \in LogIndices :
             /\ UnderRoot(scan.log[j].from, scan.log[j].root0)
             /\ ~UnderRoot(scan.log[j].to, scan.log[j].root1)})
       /\ scan.archived + scan.unarchived
             <= Cardinality({j \in LogIndices : scan.log[j].to # scan.log[j].from})

C10_Witness ==
    /\ scan.status = "done"
    /\ scan.archived = 1
    /\ scan.unarchived = 1
    /\ Len(scan.log) = 3

\* C11: when createFolder fails with an error other than "already exists", or
\* renameFile fails, the call ends in Error and the failure reaches its caller
\* (a scan is rejected); the step starts no other call and schedules none, and
\* the file is at the path it had when the call began.
C11_StoreFailure ==
    [][used'.fails > used.fails =>
          /\ lastRun'.outcome = "Error"
          /\ lastRun'.reason \in {"createFolder failed", "renameFile failed"}
          /\ lastRun'.to = lastRun'.from
          /\ path' = path
          /\ path'[lastRun'.file] = lastRun'.from
          /\ timers' = timers
          /\ \E s \in Slots :
                /\ calls[s].pc \in {"create", "rename"}
                /\ calls[s].file = lastRun'.file
                /\ calls'[s].pc = "idle"
                /\ \A t \in Slots \ {s} : calls'[t] = calls[t]
          /\ lastRun'.owner = "scan" => scan'.status = "rejected"]_vars

C11_Witness ==
    /\ lastRun.outcome = "Error"
    /\ lastRun.reason = "createFolder failed"
    /\ lastRun.from = ArchivedNote
    /\ path[lastRun.file] = ArchivedNote
    /\ \A s \in Slots : calls[s].pc = "idle"

\* C12: buildUnarchiveTarget of the archive root itself is null, it is null
\* for every path that is not under the root, and a run on a file whose path
\* is the root itself, matching no rule and with unarchiving on, ends
\* NoAction with the file where it was.
C12_RootNeverSource ==
    /\ ~buildUnarchiveTarget(settings, settings.archiveRoot).ok
    /\ \A f \in Files :
          ~InArchiveArea(path[f], settings.archiveRoot)
             => ~buildUnarchiveTarget(settings, path[f]).ok
    /\ ( /\ Ran
          /\ Segments(lastRun.from) = Segments(lastRun.cfg.archiveRoot)
          /\ ~lastRun.want
          /\ lastRun.cfg.unarchiveOnMissingAll )
       => (lastRun.outcome = "NoAction" /\ lastRun.to = lastRun.from)

\* C13: no step taken while unarchiveOnMissingAll is false moves a file whose
\* path is under the archive root, and a run ends Unarchived only if the flag
\* was true, the file was under the root and no field or tag matched.
C13_UnarchiveToggle ==
    [][/\ ~settings.unarchiveOnMissingAll =>
             \A f \in Files :
                InArchiveArea(path[f], settings.archiveRoot) => path'[f] = path[f]
       /\ lastRun'.outcome = "Unarchived" =>
             /\ lastRun'.cfg.unarchiveOnMissingAll
             /\ InArchiveArea(lastRun'.from, lastRun'.cfg.archiveRoot)
             /\ ~lastRun'.want]_vars

C13_Witness ==
    /\ ~settings.unarchiveOnMissingAll
    /\ lastRun.outcome = "NoAction"
    /\ ~lastRun.cfg.unarchiveOnMissingAll
    /\ ~lastRun.want
    /\ lastRun.from = ArchivedNote
    /\ path[lastRun.file] = ArchivedNote

\* C14: a file that a run archived from the active path P without a
\* collision, and whose next run finds no field or tag matching, the same
\* root, unarchiving on, dry-run off, no exclusion, P free and no store
\* failure, is moved back to exactly P by that run.
C14_RoundTrip ==
    ( /\ lastRun.prev.outcome = "Archived"
      /\ lastRun.prev.file = lastRun.file
      /\ ~InArchiveArea(lastRun.prev.from, lastRun.prev.root)
      /\ lastRun.prev.to = Mirror(lastRun.prev.root, lastRun.prev.from)
      /\ lastRun.from = lastRun.prev.to
      /\ lastRun.cfg.archiveRoot = lastRun.prev.root
      /\ ~lastRun.want
      /\ lastRun.cfg.unarchiveOnMissingAll
      /\ ~lastRun.cfg.dryRun
      /\ ~ExcludedBy(lastRun.from, lastRun.cfg)
      /\ lastRun.prev.from \notin lastRun.occupied
      /\ ~StoreFailed )
    => /\ lastRun.outcome = "Unarchived"
       /\ lastRun.to = lastRun.prev.from
       /\ path[lastRun.file] = lastRun.prev.from

C14_Witness ==
    /\ lastRun.outcome = "Unarchived"
    /\ lastRun.prev.outcome = "Archived"
    /\ lastRun.prev.file = lastRun.file
    /\ lastRun.prev.from = TaskNote
    /\ lastRun.prev.to = ArchivedNote
    /\ lastRun.from = ArchivedNote
    /\ path[lastRun.file] = TaskNote

\* C15: every step of a scanAll call decides with the settings that were
\* current when the call started: the containment checks before and after
\* each file's processFile use one and the same archive root, that of the
\* scan's first step.
C15_ConfigSnapshot ==
    \A j \in LogIndices :
        /\ scan.log[j].root1 = scan.log[j].root0
        /\ scan.log[j].root0 = scan.log[1].root0

\* the specification's folding of a string: no spaces at either end, lower case
Fold(x) ==
    LET I == {i \in 1..Len(x) : x[i] # " "}
    IN  IF I = {} THEN <<>>
        ELSE [i \in 1..(Max(I) - Min(I) + 1) |->
                 CASE x[Min(I) + i - 1] = "TRUE"     -> "true"
                   [] x[Min(I) + i - 1] = "Yes"      -> "yes"
                   [] x[Min(I) + i - 1] = "Archived" -> "archived"
                   [] x[Min(I) + i - 1] = "Status"   -> "status"
                   [] OTHER                          -> x[Min(I) + i - 1]]

TruthyBySpec(st, v) ==
    \/ v = VBool(TRUE)
    \/ v = VNum(1)
    \/ /\ v.t = "string"
       /\ Fold(v.s) \in {<<"true">>, <<"1">>} \cup {Fold(x) : x \in Range(st.extraTruthyValues)}

\* the note of the run has one field, under a configured name, and no tag
FieldOf(c) == c.fm[1]

OneField(st, c) ==
    /\ c.hasFm
    /\ Len(c.fm) = 1
    /\ c.tags = <<>>
    /\ Fold(FieldOf(c).k) \in {Fold(x) : x \in Range(st.propertyNames)}
    /\ Fold(FieldOf(c).k) # <<"tags">>

\* C16: isTruthy is true exactly for true, 1, and the strings that trimmed and
\* lower-cased are "true", "1" or a configured extra value (lower-cased); it
\* is false for false, other numbers, other strings, null, objects and
\* arrays; a note whose one configured field holds the value is classified
\* accordingly.
C16_TruthyMatrix ==
    /\ \A v \in FieldValues : isTruthy(settings, v) <=> TruthyBySpec(settings, v)
    /\ isTruthy(settings, VBool(TRUE))
    /\ isTruthy(settings, VNum(1))
    /\ ~isTruthy(settings, VNum(2))
    /\ isTruthy(settings, VStr(<<"TRUE">>))
    /\ ~isTruthy(settings, VStr(<<"no">>))
    /\ ~isTruthy(settings, VBool(FALSE))
    /\ ~isTruthy(settings, VNull)
    /\ ~isTruthy(settings, VObject)
    /\ ~isTruthy(settings, VList(<<VBool(TRUE)>>))
    /\ isTruthy(settings, VStr(<<"yes">>))
          <=> \E j \in 1..Len(settings.extraTruthyValues) :
                 settings.extraTruthyValues[j] \in {<<"yes">>, <<"Yes">>}
    /\ (Ran /\ OneField(lastRun.cfg, cache[lastRun.file]))
          => (lastRun.want <=> TruthyBySpec(lastRun.cfg, FieldOf(cache[lastRun.file]).v))

C16_Witness ==
    /\ Ran
    /\ OneField(lastRun.cfg, cache[lastRun.file])
    /\ FieldOf(cache[lastRun.file]).v = VStr(<<"yes">>)
    /\ <<"yes">> \notin Range(lastRun.cfg.extraTruthyValues)
    /\ <<"Yes">> \notin Range(lastRun.cfg.extraTruthyValues)
    /\ ~lastRun.want
    /\ lastRun.outcome = "NoAction"

\* a tag as the specification normalizes it
TagToken(t) == Fold(IF t # <<>> /\ Head(t) = "#" THEN Tail(t) ELSE t)

\* every tag a note carries: the strings of a tags list, the pieces of a tags
\* string between commas and blanks, and the inline tags
FmTagsBySpec(c) ==
    UNION { IF c.fm[i].k # <<"tags">> THEN {}
            ELSE IF c.fm[i].v.t = "string" THEN Range(splitTags(c.fm[i].v.s, <<>>))
            ELSE IF c.fm[i].v.t = "array"
                 THEN {c.fm[i].v.l[j].s : j \in {n \in 1..Len(c.fm[i].v.l) : c.fm[i].v.l[n].t = "string"}}
            ELSE {} : i \in 1..Len(c.fm) }

TagsBySpec(c) == {TagToken(t) : t \in FmTagsBySpec(c) \cup Range(c.tags)}

TagsMeet(st, c) == TagsBySpec(c) \cap {TagToken(x) : x \in Range(st.tags)} # {}

FieldMatches(st, c) ==
    \E i \in 1..Len(c.fm) :
        /\ Fold(c.fm[i].k) \in {Fold(x) : x \in Range(st.propertyNames)}
        /\ TruthyBySpec(st, c.fm[i].v)

ArchivedSpellings == { <<"#", "Archived">>, <<"archived">>, <<" ", "Archived", " ">> }

CarriesArchived(c) ==
    \E t \in ArchivedSpellings : c \in {ListTagCache(t), StringTagCache(t), InlineTagCache(t)}

\* C17: "#Archived", "archived" and " Archived " normalize to one token, and a
\* note that carries any one of them, in a tags list, in a tags string or
\* inline, is classified should-archive when "archived" is a configured tag;
\* a note with no truthy configured field and no tag in common with the
\* configured tags is not.
C17_TagNormalization ==
    /\ \A t \in ArchivedSpellings : norm(stripHash(t)) = <<"archived">>
    /\ ( /\ Ran
          /\ CarriesArchived(cache[lastRun.file])
          /\ \E j \in 1..Len(lastRun.cfg.tags) : TagToken(lastRun.cfg.tags[j]) = <<"archived">> )
       => lastRun.want
    /\ (Ran /\ ~FieldMatches(lastRun.cfg, cache[lastRun.file]) /\ ~TagsMeet(lastRun.cfg, cache[lastRun.file]))
          => ~lastRun.want
    /\ (Ran /\ TagsMeet(lastRun.cfg, cache[lastRun.file])) => lastRun.want

C17_Witness ==
    /\ Ran
    /\ cache[lastRun.file] = StringTagCache(<<" ", "Archived", " ">>)
    /\ lastRun.cfg.tags = << <<"Archived">>, <<"x">> >>
    /\ lastRun.want
    /\ lastRun.outcome = "WouldArchive"

\* C18: a step changes the path of at most one file, the file of a
\* processFile call that is at its renameFile; every other file keeps its
\* path, the new path was no other file's and no folder's, and no two files
\* share a path.
C18_Frame ==
    [][\A f \in Files :
          path'[f] # path[f] =>
             /\ \E s \in Slots :
                   /\ calls[s].pc = "rename"
                   /\ calls[s].file = f
                   /\ calls'[s].pc = "idle"
             /\ \A g \in Files \ {f} :
                   /\ path'[g] = path[g]
                   /\ path'[f] # path[g]
             /\ path'[f] \notin folders
             /\ Cardinality({path'[g] : g \in Files}) = Cardinality(Files)]_vars

C18_Witness ==
    /\ lastRun.outcome = "Unarchived"
    /\ lastRun.from = ArchivedNote
    /\ path[lastRun.file] = lastRun.to
    /\ lastRun.to \notin lastRun.occupied
    /\ \A g \in Files \ {lastRun.file} : path[g] \in lastRun.occupied
    /\ \E g \in Files \ {lastRun.file} : folderOf(path[g]) = folderOf(ArchivedNote)

\* C19: isInArchive(path) is true exactly when the path is the root or lies
\* below it segment by segment, and isExcluded decides an excluded prefix by
\* the same rule; Archive2/Inbox.md and ArchiveOld/Inbox.md are not in the
\* archive Archive, and a marked note at Archive2/Inbox.md is archived.
C19_SegmentAligned ==
    /\ \A f \in Files :
          isInArchive(settings, path[f]) <=> InArchiveArea(path[f], settings.archiveRoot)
    /\ \A f \in Files :
          isExcluded(settings, path[f])
             <=> \E j \in 1..Len(settings.excludedRoots) :
                    InArchiveArea(path[f], settings.excludedRoots[j])
    /\ \A p \in {Archive2Note, ArchiveOldNote} :
          /\ ~isInArchive(DEFAULT_SETTINGS, p)
          /\ ~isExcluded([DEFAULT_SETTINGS EXCEPT !.excludedRoots = << <<"Archive">> >>], p)
    /\ ( /\ Ran
          /\ ~StoreFailed
          /\ lastRun.from \in {Archive2Note, ArchiveOldNote}
          /\ Segments(lastRun.cfg.archiveRoot) = << <<"Archive">> >>
          /\ ~ExcludedBy(lastRun.from, lastRun.cfg) )
       => lastRun.outcome = (IF ~lastRun.want THEN "NoAction"
                             ELSE IF lastRun.cfg.dryRun THEN "WouldArchive"
                             ELSE "Archived")

C19_Witness ==
    /\ lastRun.outcome = "Archived"
    /\ lastRun.from = Archive2Note
    /\ lastRun.cfg.archiveRoot = <<"Archive">>
    /\ path[lastRun.file] = <<"Archive", "/">> \o Archive2Note

\* the path a call at createFolder is about to create
CreatePath(c) == normalizePath(accOf(c.parts, c.k))

\* C20: when a call is at its renameFile, every folder its destination lies in
\* exists; folders are created one at a time, each after the folders it lies
\* in; ensureFolderExists creates nothing when the folder exists; and a call
\* whose folder appears before its createFolder goes on without an error.
C20_DirectoryPrepared ==
    [][/\ \A s \in Slots :
             calls'[s].pc = "rename" => parentFolders(calls'[s].dest) \subseteq folders'
       /\ \A d \in folders' : parentFolders(d) \subseteq folders'
       /\ folders' # folders =>
             \E s \in Slots :
                /\ calls[s].pc = "create"
                /\ folders' = folders \cup {CreatePath(calls[s])}
                /\ CreatePath(calls[s]) \in parentFolders(calls[s].full)
       /\ \A s \in Slots :
             ( /\ calls[s].pc = "ensure"
               /\ normalizePath(calls[s].dir) \in folders
               /\ calls'[s] # calls[s] )
             => (calls'[s].pc = "resolve" /\ folders' = folders)
       /\ \A s \in Slots :
             ( /\ calls[s].pc = "create"
               /\ CreatePath(calls[s]) \in folders
               /\ calls'[s] # calls[s] )
             => /\ calls'[s].pc \in {"probe", "resolve"}
                /\ calls'[s].made = calls[s].made
                /\ folders' = folders
                /\ lastRun' = lastRun]_vars

C20_Witness ==
    \E s \in Slots :
        /\ calls[s].pc = "rename"
        /\ calls[s].met = {folderOf(calls[s].dest)}
        /\ calls[s].made = {}
        /\ folderOf(calls[s].dest) \notin calls[s].occupied
        /\ parentFolders(calls[s].dest) \subseteq folders

\* C21: no call issues renameFile with a destination that names an existing
\* file, also when calls for different files that resolve to one destination
\* interleave between resolveCollision and renameFile; no two files share a
\* path.
C21_NoMoveOntoExisting ==
    /\ ~(lastRun.outcome = "Error" /\ lastRun.reason = "destination exists")
    /\ Cardinality({path[f] : f \in Files}) = Cardinality(Files)

\* C22: after a run without error and with dry-run off on a .md file that is
\* not excluded, the file is under the archive root if it was classified
\* should-archive, and, with unarchiving on and the file not at the root
\* itself, it is not under the root if it was not.
C22_PostStateAgrees ==
    ( /\ Ran
      /\ lastRun.outcome # "Error"
      /\ ~lastRun.cfg.dryRun
      /\ Recognized(lastRun.from)
      /\ ~ExcludedBy(lastRun.from, lastRun.cfg) )
    => /\ lastRun.want => InArchiveArea(lastRun.to, lastRun.cfg.archiveRoot)
       /\ ( /\ ~lastRun.want
             /\ lastRun.cfg.unarchiveOnMissingAll
             /\ Segments(lastRun.from) # Segments(lastRun.cfg.archiveRoot) )
          => ~InArchiveArea(lastRun.to, lastRun.cfg.archiveRoot)
====
